---- MODULE Spec2Model ----
(***************************************************************************)
(* Task execution engine of zoro_toolkit (src/src/core/engine.py).         *)
(*                                                                         *)
(* The model follows one Engine object: tasks are submitted with add_task, *)
(* then run is called either in pooled mode (worker threads) or in         *)
(* cooperative mode (asyncio tasks on the engine's thread pool executor).  *)
(* The priority queue is Python's queue.PriorityQueue, a binary heap of    *)
(* the tuples (priority, task, args, kwargs, max_retries, timeout) that    *)
(* add_task builds; the heap algorithms are CPython's heapq.               *)
(*                                                                         *)
(* The engine's token bucket (src/src/utils/rate_limit.py) is modelled     *)
(* with it: the workers call its wait, and SpecLimiter follows one         *)
(* RateLimiter object shared by threads and a coroutine. Time is counted   *)
(* in units of 1/requests_per_second seconds, one token's refill time.     *)
(***************************************************************************)
EXTENDS Integers, Sequences, FiniteSets, TLC

\* ------------------------------------------------------------------ bounds

\* number of add_task calls explored
MaxTasks == 2
\* the clock of cooperative mode runs from 0 to MaxTime
MaxTime == 3
\* number of run calls explored on one engine
MaxRuns == 3
\* number of limiter operations explored on one RateLimiter
MaxCalls == 2
\* the clock of the limiter runs from 0 to MaxClock
MaxClock == 2

\* thread_count values the engine is constructed with
ThreadCounts == {1, 2}
\* The add_task calls explored: priority, payload callable, max_retries and
\* timeout. They cover equal and different priorities, the same and different
\* callables at one priority, and a retry budget of none and of two.
TaskInputs ==
    { [priority |-> 0, fn |-> "f", max_retries |-> 0, timeout |-> 2],
      [priority |-> 0, fn |-> "g", max_retries |-> 2, timeout |-> 2],
      [priority |-> 1, fn |-> "f", max_retries |-> 2, timeout |-> 2],
      [priority |-> 1, fn |-> "f", max_retries |-> 0, timeout |-> 2] }
\* values a payload can return; "None" and "0" are falsy
ReturnValues == {"data", "None", "0"}
\* how long one call of a payload takes in a worker thread
Durations == {1, 3}
\* how a payload ends in cooperative mode: it returns, or it raises an
\* exception; TimeoutError (socket.timeout, asyncio.TimeoutError) is the class
\* that execute_async names in its first except clause
Endings == {"returns", "Exception", "TimeoutError"}
\* burst_size values a RateLimiter is constructed with, and the `tokens`
\* arguments its operations are called with
BurstSizes == {1, 2}
Costs == {1, 3}
\* what time.monotonic() reads when the RateLimiter is constructed: the time
\* since the machine started
Uptimes == {0, 6}
\* the callers of one shared RateLimiter: threads, which call wait and
\* check_rate_limit, and a coroutine on an event loop, which calls async_wait
Threads == {"t1", "t2"}
Coroutines == {"c1"}

\* ------------------------------------------------------------------ state

VARIABLES
    thread_count,   \* Engine.thread_count
    queue,          \* Engine.queue: the heap list of the PriorityQueue
    unfinished_tasks, \* Engine.queue.unfinished_tasks
    results,        \* Engine.results
    stop_event,     \* Engine._stop_event
    lock,           \* Engine._lock: 0 when free, else the worker holding it
    mainpc,         \* position of the thread that submits and calls run
    wpc,            \* position of each worker thread in Engine.worker
    cur,            \* the tuple a worker has dequeued
    tasks,          \* the execute_async coroutines run_async created
    now,            \* the clock of the event loop
    returned,       \* the list run returned
    mode,           \* how run was last called: "pooled" or "coop"
    runs,           \* number of run calls made
    executor,       \* Engine._executor: "open" or "shutdown"
    exc,            \* the exception raised inside the with block, if any
    burst_size,     \* RateLimiter.burst_size
    tokens,         \* RateLimiter.tokens
    last_update,    \* RateLimiter.last_update
    last_warning,   \* RateLimiter._last_warning, a reading of time.monotonic()
    boot,           \* the reading of time.monotonic() at construction
    clock,          \* time.monotonic()
    limiter_lock,   \* RateLimiter._lock: "free" or the thread holding it
    async_lock,     \* RateLimiter._async_lock: "free" or the coroutine
    callers,        \* position and locals of each caller of the limiter
    \* history variables
    nextId,         \* submission sequence number of the next add_task call
    submitted,      \* ids of the add_task calls that returned normally
    addRaised,      \* ids of the add_task calls that raised
    inflight,       \* ids of the tuples workers held when stop was set
    permits,        \* ids of the tasks a limiter acquire was made for
    firstReturn,    \* the list the first run call returned
    reads,          \* how the later run calls' lists compare with it
    begun,          \* number of limiter operations begun
    acquires,       \* the costs of the wait and async_wait calls begun
    granted,        \* tokens debited by wait and async_wait so far
    raced,          \* a thread and a coroutine were inside their locks at once
    warnings,       \* the `now` of every warning the limiter has logged
    last            \* what the step just taken did, when it ended a payload

vars == <<thread_count, queue, unfinished_tasks, results, stop_event, lock,
          mainpc, wpc, cur, tasks, now, returned, mode, runs, executor, exc,
          burst_size, tokens, last_update, last_warning, boot, warnings, clock,
          limiter_lock, async_lock, callers, nextId, submitted, addRaised,
          inflight, permits, firstReturn, reads, begun, acquires, granted,
          raced, last>>

queueVars == <<queue, unfinished_tasks>>
poolVars == <<stop_event, lock, wpc, cur>>
coopVars == <<tasks, now>>
histVars == <<nextId, submitted, addRaised, inflight, permits>>
runVars == <<returned, mode, runs, firstReturn, reads>>
scopeVars == <<executor, exc>>
warnVars == <<last_warning, boot, warnings>>
bucketVars == <<burst_size, tokens, last_update, granted, warnVars>>
callerVars == <<clock, limiter_lock, async_lock, callers, begun, acquires,
                raced>>
engineVars == <<thread_count, results, mainpc, queueVars, poolVars, coopVars,
                histVars, runVars, scopeVars>>

Workers == 1..thread_count

NoTask == [id |-> 0]
NoStep == [op |-> "none"]
NoOutcome == [pending |-> TRUE]

\* ------------------------------------------------------- the priority queue

\* Python's `a < b` on two queue tuples (priority, task, args, kwargs,
\* max_retries, timeout): the first position where the tuples differ decides.
\* Two different functions are unorderable (TypeError); args and kwargs are
\* empty here, so they are always equal.
IntLess(x, y) == IF x < y THEN "lt" ELSE "ge"

TupleLess(a, b) ==
    IF a.priority # b.priority THEN IntLess(a.priority, b.priority)
    ELSE IF a.fn # b.fn THEN "err"
    ELSE IF a.max_retries # b.max_retries
    THEN IntLess(a.max_retries, b.max_retries)
    ELSE IF a.timeout # b.timeout THEN IntLess(a.timeout, b.timeout)
    ELSE "ge"

\* heap positions are 0-based as in heapq; sequences are 1-based
Swap(h, i, j) == [h EXCEPT ![i + 1] = h[j + 1], ![j + 1] = h[i + 1]]

\* _heapq siftdown: move heap[pos] towards the root while it is smaller than
\* its parent. A failing comparison leaves the heap as it is at that moment.
RECURSIVE SiftDown(_, _, _)
SiftDown(h, startpos, pos) ==
    IF pos <= startpos THEN [heap |-> h, err |-> FALSE]
    ELSE LET parentpos == (pos - 1) \div 2
             c == TupleLess(h[pos + 1], h[parentpos + 1])
         IN  IF c = "err" THEN [heap |-> h, err |-> TRUE]
             ELSE IF c = "ge" THEN [heap |-> h, err |-> FALSE]
             ELSE SiftDown(Swap(h, pos, parentpos), startpos, parentpos)

\* _heapq siftup: bubble the smaller child up until a leaf is reached, then
\* sift the moved item down to its place.
RECURSIVE SiftUpLoop(_, _)
SiftUpLoop(h, pos) ==
    LET endpos == Len(h)
        limit == endpos \div 2
        left == 2 * pos + 1
    IN  IF pos >= limit THEN [heap |-> h, pos |-> pos, err |-> FALSE]
        ELSE LET c == IF left + 1 < endpos
                      THEN TupleLess(h[left + 1], h[left + 2])
                      ELSE "lt"
                 childpos == IF c = "lt" THEN left ELSE left + 1
             IN  IF c = "err" THEN [heap |-> h, pos |-> pos, err |-> TRUE]
                 ELSE SiftUpLoop(Swap(h, childpos, pos), childpos)

SiftUp(h, pos) ==
    LET up == SiftUpLoop(h, pos)
    IN  IF up.err THEN [heap |-> up.heap, err |-> TRUE]
        ELSE SiftDown(up.heap, pos, up.pos)

\* heapq.heappush
HeapPush(h, item) == SiftDown(Append(h, item), 0, Len(h))

\* heapq.heappop: the last item replaces the root and is sifted; when a
\* comparison fails the root item is already out of the list.
HeapPop(h) ==
    LET n == Len(h)
        rest == SubSeq(h, 1, n - 1)
    IN  IF n = 1 THEN [item |-> h[1], heap |-> <<>>, err |-> FALSE]
        ELSE LET r == SiftUp([rest EXCEPT ![1] = h[n]], 0)
             IN  [item |-> h[1], heap |-> r.heap, err |-> r.err]

\* Queue.task_done on a queue with `unf` unfinished tasks: one fewer, or
\* ValueError when there is none
TaskDoneRaises(unf) == unf = 0
TaskDone(unf) == IF unf = 0 THEN 0 ELSE unf - 1

\* ------------------------------------------------------- the rate limiter

\* requests_per_second, in tokens per unit of time
rate == 1
\* the burst_size of the RateLimiter() that Engine.__init__ constructs
DefaultBurstSize == 20

Callers == Threads \cup Coroutines

\* the operations a caller can call
OpsOf(c) ==
    IF c \in Threads THEN {"wait", "check_rate_limit"} ELSE {"async_wait"}

Idle == [pc |-> "idle"]

Min(a, b) == IF a < b THEN a ELSE b

\* a bucket that starts empty
InitialTokensNone(burst) == 0

\* `self.tokens = burst_size` in RateLimiter.__init__
InitialTokens(burst) == burst

\* RateLimiter._update_tokens: the token count after time_passed
Refill(tok, time_passed, burst) == Min(burst, tok + time_passed * rate)

\* The limiter whose warnings are followed has requests_per_second = 1, so
\* that a second is one unit of time: the `wait_time > 1.0` and the
\* `now - self._last_warning > 5.0` of wait and async_wait
WarnWait == 1
WarnInterval == 5

\* `wait_time = (tokens - self.tokens) / self.rate`
WaitTime(cost, tok) == (cost - tok) \div rate

\* a wait that refills and returns without `self.tokens -= tokens`
WaitAloneNoDebit(tok, updated, t, cost, burst) ==
    [tokens |-> Refill(tok, t - updated, burst), last_update |-> t,
     slept |-> 0]

\* RateLimiter.wait(cost) called at time t with no other caller about, and
\* time.sleep sleeping for exactly wait_time: the bucket afterwards
WaitAlone(tok, updated, t, cost, burst) ==
    LET first == Refill(tok, t - updated, burst)
        wait_time == IF first < cost THEN WaitTime(cost, first) ELSE 0
        second == IF first < cost THEN Refill(first, wait_time, burst)
                  ELSE first
    IN  [tokens |-> second - cost, last_update |-> t + wait_time,
         slept |-> wait_time]

\* a caller calls wait, async_wait or check_rate_limit with `tokens` = cost
Call(c, op, cost) ==
    /\ callers[c] = Idle
    /\ begun < MaxCalls
    /\ callers' = [callers EXCEPT ![c] =
           [pc |-> "lock", op |-> op, cost |-> cost, now |-> 0, computed |-> 0,
            wait_time |-> 0, wake |-> 0, slept |-> FALSE]]
    /\ begun' = begun + 1
    /\ acquires' = IF op = "check_rate_limit" THEN acquires
                   ELSE Append(acquires, cost)
    /\ last' = NoStep
    /\ UNCHANGED <<engineVars, bucketVars, clock, limiter_lock, async_lock,
                   raced>>

\* `with self._lock:` in wait and check_rate_limit, `async with
\* self._async_lock:` in async_wait: two locks, one for each kind of caller
Acquire(c) ==
    /\ callers[c].pc = "lock"
    /\ IF c \in Threads
       THEN /\ limiter_lock = "free"
            /\ limiter_lock' = c
            /\ raced' = (raced \/ async_lock # "free")
            /\ UNCHANGED async_lock
       ELSE /\ async_lock = "free"
            /\ async_lock' = c
            /\ raced' = (raced \/ limiter_lock # "free")
            /\ UNCHANGED limiter_lock
    /\ callers' = [callers EXCEPT ![c].pc = "clock"]
    /\ last' = NoStep
    /\ UNCHANGED <<engineVars, bucketVars, clock, begun, acquires>>

\* _update_tokens: `now = time.monotonic()`, a call after which another
\* thread can run
ReadClock(c) ==
    /\ callers[c].pc = "clock"
    /\ callers' = [callers EXCEPT ![c].pc = "refill", ![c].now = clock]
    /\ last' = NoStep
    /\ UNCHANGED <<engineVars, bucketVars, clock, limiter_lock, async_lock,
                   begun, acquires, raced>>

\* _update_tokens: `time_passed = now - self.last_update` and the arguments
\* of min are evaluated; the call of min lets another thread run
RefillRead(c) ==
    /\ callers[c].pc = "refill"
    /\ callers' = [callers EXCEPT
           ![c].pc = "store",
           ![c].computed = Refill(tokens, callers[c].now - last_update,
                                  burst_size)]
    /\ last' = NoStep
    /\ UNCHANGED <<engineVars, bucketVars, clock, limiter_lock, async_lock,
                   begun, acquires, raced>>

\* the lock of caller c is released
Release(c) ==
    /\ limiter_lock' = IF c \in Threads THEN "free" ELSE limiter_lock
    /\ async_lock' = IF c \in Coroutines THEN "free" ELSE async_lock

\* _update_tokens: `self.tokens = min(...)` and `self.last_update = now`, and
\* what follows its return, up to the next call that lets another thread run:
\* no call is made between the return of _update_tokens and the test or the
\* debit. check_rate_limit tests and raises RateLimitExceededError or returns;
\* wait and async_wait, on their first update, test and either compute
\* wait_time and read the clock (`now = time.monotonic()`) or debit; on the
\* update after the sleep they debit untested.
RefillStore(c) ==
    /\ callers[c].pc = "store"
    /\ last_update' = callers[c].now
    /\ LET tok == callers[c].computed
           cost == callers[c].cost
       IN  IF callers[c].op = "check_rate_limit"
           THEN /\ tokens' = tok
                /\ callers' = [callers EXCEPT ![c] = Idle]
                /\ Release(c)
                /\ last' = [op |-> "check_rate_limit", caller |-> c,
                            cost |-> cost, slept |-> callers[c].slept,
                            raised |-> tok < cost]
                /\ UNCHANGED granted
           ELSE IF ~callers[c].slept /\ tok < cost
           THEN /\ tokens' = tok
                /\ callers' = [callers EXCEPT
                       ![c].pc = "warn",
                       ![c].slept = TRUE,
                       ![c].now = clock,
                       ![c].computed = 0,
                       ![c].wait_time = WaitTime(cost, tok)]
                /\ last' = NoStep
                /\ UNCHANGED <<granted, limiter_lock, async_lock>>
           ELSE /\ tokens' = tok - cost
                /\ granted' = granted + cost
                /\ callers' = [callers EXCEPT ![c] = Idle]
                /\ Release(c)
                /\ last' = [op |-> callers[c].op, caller |-> c, cost |-> cost,
                            slept |-> callers[c].slept, raised |-> FALSE]
    /\ UNCHANGED <<engineVars, burst_size, warnVars, clock, begun, acquires,
                   raced>>

\* `now - self._last_warning > 5.0`, with no interval between warnings
WarnDueAlways(t, warned) == TRUE

\* `now - self._last_warning > 5.0`
WarnDue(t, warned) == t - warned > WarnInterval

\* `if now - self._last_warning > 5.0 and wait_time > 1.0:` with the store of
\* _last_warning, which no call separates from the test, then logger.warning
\* and the call of time.sleep(wait_time) or asyncio.sleep(wait_time)
WarnCheck(c) ==
    /\ callers[c].pc = "warn"
    /\ LET t == boot + callers[c].now
           due == WarnDue(t, last_warning) /\ callers[c].wait_time > WarnWait
       IN  /\ last_warning' = IF due THEN t ELSE last_warning
           /\ warnings' = IF due THEN Append(warnings, t) ELSE warnings
           /\ last' = [op |-> "warn_test", caller |-> c,
                       wait_time |-> callers[c].wait_time,
                       since |-> t - last_warning, warned |-> due]
    /\ callers' = [callers EXCEPT
           ![c].pc = "sleep",
           ![c].now = 0,
           ![c].wait_time = 0,
           ![c].wake = clock + callers[c].wait_time]
    /\ UNCHANGED <<engineVars, burst_size, tokens, last_update, granted, boot,
                   clock, limiter_lock, async_lock, begun, acquires, raced>>

\* time.sleep(wait_time) or asyncio.sleep(wait_time) returns, wait_time or
\* more after it was called; _update_tokens is called again
Wake(c) ==
    /\ callers[c].pc = "sleep"
    /\ clock >= callers[c].wake
    /\ callers' = [callers EXCEPT ![c].pc = "clock", ![c].wake = 0]
    /\ last' = NoStep
    /\ UNCHANGED <<engineVars, bucketVars, clock, limiter_lock, async_lock,
                   begun, acquires, raced>>

\* one unit of time passes
ClockTick ==
    /\ clock < MaxClock
    /\ clock' = clock + 1
    /\ last' = NoStep
    /\ UNCHANGED <<engineVars, bucketVars, limiter_lock, async_lock, callers,
                   begun, acquires, raced>>

\* ----------------------------------------------------------------- add_task

\* Engine.add_task: build the tuple and put it on the queue. When heappush
\* raises, the tuple is already in the heap list but Queue.put has not counted
\* it as unfinished, and the TypeError reaches the caller.
PutTask(p, f, m, to) ==
    /\ nextId <= MaxTasks
    /\ LET item == [priority |-> p, fn |-> f, max_retries |-> m,
                    timeout |-> to, id |-> nextId]
           r == HeapPush(queue, item)
       IN  /\ queue' = r.heap
           /\ unfinished_tasks' =
                  IF r.err THEN unfinished_tasks ELSE unfinished_tasks + 1
           /\ submitted' = IF r.err THEN submitted ELSE submitted \cup {nextId}
           /\ addRaised' = IF r.err THEN addRaised \cup {nextId} ELSE addRaised
    /\ nextId' = nextId + 1
    /\ last' = NoStep
    /\ UNCHANGED <<thread_count, results, mainpc, poolVars, coopVars, inflight,
                   permits, runVars, scopeVars>>
    /\ UNCHANGED <<bucketVars, callerVars>>

\* add_task called before the first call of run
AddTask(p, f, m, to) == mainpc = "submit" /\ PutTask(p, f, m, to)

\* add_task called after run has returned, before it is called again
AddTaskAgain(p, f, m, to) == mainpc = "returned" /\ PutTask(p, f, m, to)

\* add_task called while pooled run is on, by a payload or by another thread
AddTaskDuring(p, f, m, to) ==
    /\ mainpc \in {"join", "setstop", "jointhreads"}
    /\ PutTask(p, f, m, to)

\* ------------------------------------------------------------ _execute_task

Truthy(v) == v \notin {"None", "0"}

\* the dict appended for a successful task (id: the task it belongs to)
SuccessRecord(t, v) ==
    [priority |-> t.priority, status |-> "success", result |-> v, id |-> t.id]

\* the dict appended when the retries are used up
ErrorRecord(t, msg) ==
    [priority |-> t.priority, status |-> "error", error |-> msg, id |-> t.id]

\* The while loop of Engine._execute_task for a payload that raises on its
\* first `fails` calls (the i-th call raising with message i) and returns v
\* afterwards. `calls` counts the calls of the payload made so far.
RECURSIVE ExecuteLoop(_, _, _, _, _, _)
ExecuteLoop(res, t, fails, v, retries, calls) ==
    IF ~(retries <= t.max_retries)
    THEN [results |-> res, calls |-> calls, outcome |-> "raised"]
    ELSE IF calls + 1 > fails
    THEN \* the call returns v: `if result:` append, then break
         [results |-> IF Truthy(v) THEN Append(res, SuccessRecord(t, v)) ELSE res,
          calls |-> calls + 1, outcome |-> v]
    ELSE \* the call raises with message calls + 1
         LET r == retries + 1
         IN  IF r > t.max_retries
             THEN ExecuteLoop(Append(res, ErrorRecord(t, calls + 1)), t, fails,
                              v, r, calls + 1)
             ELSE ExecuteLoop(res, t, fails, v, r, calls + 1)

\* _execute_task with `retries = 1` as its first line
ExecuteTaskRetriesFromOne(res, t, fails, v) == ExecuteLoop(res, t, fails, v, 1, 0)

ExecuteTask(res, t, fails, v) == ExecuteLoop(res, t, fails, v, 0, 0)

\* ------------------------------------------------------------------- worker

\* `while not self._stop_event.is_set()`
WorkerCheck(w) ==
    /\ wpc[w] = "check"
    /\ wpc' = [wpc EXCEPT ![w] = IF stop_event THEN "exit" ELSE "get"]
    /\ last' = NoStep
    /\ UNCHANGED <<thread_count, results, mainpc, queueVars, stop_event, lock,
                   cur, coopVars, histVars, runVars, scopeVars>>
    /\ UNCHANGED <<bucketVars, callerVars>>

\* `self.queue.get_nowait()`: Empty on an empty queue, else heappop, whose
\* comparison can raise TypeError (caught by `except Exception`)
WorkerGet(w) ==
    /\ wpc[w] = "get"
    /\ IF queue = <<>>
       THEN /\ wpc' = [wpc EXCEPT ![w] = "finally_empty"]
            /\ UNCHANGED <<queue, cur>>
       ELSE LET r == HeapPop(queue)
            IN  /\ queue' = r.heap
                /\ IF r.err
                   THEN /\ wpc' = [wpc EXCEPT ![w] = "finally"]
                        /\ UNCHANGED cur
                   ELSE /\ wpc' = [wpc EXCEPT ![w] = "lock"]
                        /\ cur' = [cur EXCEPT ![w] = r.item]
    /\ last' = NoStep
    /\ UNCHANGED <<thread_count, unfinished_tasks, results, mainpc, stop_event,
                   lock, coopVars, histVars, runVars, scopeVars>>
    /\ UNCHANGED <<bucketVars, callerVars>>

\* a lock that any number of threads can hold
LockFreeAlways(l) == TRUE

\* `self.rate_limiter.wait()`: the default of `tokens: int = 1`
PermitCost == 1

\* threading.Lock: acquire returns only while no thread holds the lock
LockFree(l) == l = 0

\* `with self._lock:` and `self.rate_limiter.wait()`: the engine's limiter
\* has no caller but the worker that holds the engine's lock
WorkerLock(w) ==
    /\ wpc[w] = "lock"
    /\ LockFree(lock)
    /\ lock' = w
    /\ LET r == WaitAlone(tokens, last_update, clock, PermitCost, burst_size)
       IN  /\ tokens' = r.tokens
           /\ last_update' = r.last_update
           /\ clock' = clock + r.slept
    /\ granted' = granted + PermitCost
    /\ permits' = permits \cup {cur[w].id}
    /\ wpc' = [wpc EXCEPT ![w] = "exec"]
    /\ last' = NoStep
    /\ UNCHANGED <<thread_count, results, mainpc, queueVars, stop_event, cur,
                   coopVars, nextId, submitted, addRaised, inflight, runVars,
                   scopeVars>>
    /\ UNCHANGED <<burst_size, warnVars, limiter_lock, async_lock, callers,
                   begun, acquires, raced>>

\* `self._execute_task(...)` and the end of the with block, for a payload
\* whose calls take d each; the timeout of the tuple is not used
WorkerExecute(w, fails, v, d) ==
    /\ wpc[w] = "exec"
    /\ LET r == ExecuteTask(results, cur[w], fails, v)
       IN  /\ results' = r.results
           /\ last' = [op |-> "execute", task |-> cur[w], fails |-> fails,
                       duration |-> d, calls |-> r.calls, outcome |-> r.outcome,
                       appended |-> SubSeq(r.results, Len(results) + 1,
                                           Len(r.results))]
    /\ lock' = 0
    /\ wpc' = [wpc EXCEPT ![w] = "finally"]
    /\ UNCHANGED <<thread_count, mainpc, queueVars, stop_event, cur, coopVars,
                   histVars, runVars, scopeVars>>
    /\ UNCHANGED <<bucketVars, callerVars>>

\* `finally: self.queue.task_done()`, reached after a task, after a failed
\* get, and after Empty (where the pending break then leaves the loop). A
\* ValueError raised by task_done ends the thread.
WorkerFinally(w) ==
    /\ wpc[w] \in {"finally", "finally_empty"}
    /\ unfinished_tasks' = TaskDone(unfinished_tasks)
    /\ wpc' = [wpc EXCEPT ![w] =
                  IF TaskDoneRaises(unfinished_tasks) THEN "dead"
                  ELSE IF wpc[w] = "finally_empty" THEN "exit"
                  ELSE "check"]
    /\ cur' = [cur EXCEPT ![w] = NoTask]
    /\ last' = NoStep
    /\ UNCHANGED <<thread_count, queue, results, mainpc, stop_event, lock,
                   coopVars, histVars, runVars, scopeVars>>
    /\ UNCHANGED <<bucketVars, callerVars>>

\* ------------------------------------------------------------- run, pooled

\* Engine.run(async_mode=False) up to queue.join(): start the worker threads
StartPooled ==
    /\ mainpc' = "join"
    /\ wpc' = [w \in Workers |-> "check"]
    /\ mode' = "pooled"
    /\ runs' = runs + 1
    /\ last' = NoStep
    /\ UNCHANGED <<thread_count, results, queueVars, stop_event, lock, cur,
                   coopVars, histVars, returned, firstReturn, reads, scopeVars>>
    /\ UNCHANGED <<bucketVars, callerVars>>

\* the first call of run, in pooled mode
RunPooled == mainpc = "submit" /\ StartPooled

\* run is called again after it has returned; the threads of the earlier call
\* have all ended by then
RunPooledAgain == mainpc = "returned" /\ runs < MaxRuns /\ StartPooled

\* `self.queue.join()` returns once unfinished_tasks is 0
QueueJoin ==
    /\ mainpc = "join"
    /\ unfinished_tasks = 0
    /\ mainpc' = "setstop"
    /\ last' = NoStep
    /\ UNCHANGED <<thread_count, results, queueVars, poolVars, coopVars,
                   histVars, runVars, scopeVars>>
    /\ UNCHANGED <<bucketVars, callerVars>>

\* `self._stop_event.set()`
SetStop ==
    /\ mainpc = "setstop"
    /\ stop_event' = TRUE
    /\ mainpc' = "jointhreads"
    /\ inflight' = {cur[w].id : w \in {x \in Workers : cur[x] # NoTask}}
    /\ last' = NoStep
    /\ UNCHANGED <<thread_count, results, queueVars, lock, wpc, cur, coopVars,
                   nextId, submitted, addRaised, permits, runVars, scopeVars>>
    /\ UNCHANGED <<bucketVars, callerVars>>

\* two lists hold the same records, each as often
SameRecords(a, b) ==
    /\ Len(a) = Len(b)
    /\ \A r \in {a[k] : k \in DOMAIN a} \cup {b[k] : k \in DOMAIN b} :
           Cardinality({k \in DOMAIN a : a[k] = r})
               = Cardinality({k \in DOMAIN b : b[k] = r})

\* how the list of a later run call compares with that of the first
ReadKind(first, list) ==
    IF SameRecords(list, first) THEN "same"
    ELSE IF list = <<>> THEN "empty"
    ELSE "other"

\* run returns `list` to its caller
Return(list) ==
    /\ mainpc' = "returned"
    /\ returned' = list
    /\ firstReturn' = IF runs = 1 THEN list ELSE firstReturn
    /\ reads' = IF runs > 1 /\ firstReturn # <<>>
                THEN reads \cup {ReadKind(firstReturn, list)}
                ELSE reads

\* `for t in threads: t.join()` and `return self.results`
JoinThreads ==
    /\ mainpc = "jointhreads"
    /\ \A w \in Workers : wpc[w] \in {"exit", "dead"}
    /\ Return(results)
    /\ last' = NoStep
    /\ UNCHANGED <<thread_count, results, queueVars, poolVars, coopVars,
                   histVars, mode, runs, scopeVars>>
    /\ UNCHANGED <<bucketVars, callerVars>>

\* -------------------------------------------------------- run, cooperative

\* The loop of run_async: get every tuple, create its execute_async
\* coroutine, call task_done. Either call can raise (TypeError from heappop,
\* ValueError from task_done), which ends run_async.
RECURSIVE DrainQueue(_, _, _)
DrainQueue(q, unf, acc) ==
    IF q = <<>>
    THEN [queue |-> q, unfinished_tasks |-> unf, tasks |-> acc, err |-> FALSE]
    ELSE LET r == HeapPop(q)
         IN  IF r.err
             THEN [queue |-> r.heap, unfinished_tasks |-> unf, tasks |-> acc,
                   err |-> TRUE]
             ELSE IF TaskDoneRaises(unf)
             THEN [queue |-> r.heap, unfinished_tasks |-> unf,
                   tasks |-> Append(acc, r.item), err |-> TRUE]
             ELSE DrainQueue(r.heap, TaskDone(unf), Append(acc, r.item))

\* an execute_async coroutine at its await: the payload is a work item of the
\* executor, and wait_for has armed its timer
NewUnit(t, run) ==
    [task |-> t, work |-> "queued", outcome |-> NoOutcome, started |-> 0,
     calls |-> 0, run |-> run]

\* the coroutines of run_async, by their position in its `tasks` list; the
\* list keeps those of earlier run calls, whose payloads may still be running
UnitIds == 1..Len(tasks)

\* Engine.run(async_mode=True) up to the await of gather, which starts every
\* coroutine at the same instant. asyncio.run makes a new event loop, whose
\* clock starts at 0: payloads still running from an earlier call keep the
\* time they have been running for. An exception out of the loop of run_async
\* leaves run and is raised inside the with block.
StartAsync ==
    /\ LET d == DrainQueue(queue, unfinished_tasks, <<>>)
           old == [i \in UnitIds |->
                      IF tasks[i].work = "running"
                      THEN [tasks[i] EXCEPT !.started = @ - now]
                      ELSE tasks[i]]
           new == [i \in 1..Len(d.tasks) |-> NewUnit(d.tasks[i], runs + 1)]
       IN  /\ queue' = d.queue
           /\ unfinished_tasks' = d.unfinished_tasks
           /\ tasks' = IF d.err THEN old ELSE old \o new
           /\ mainpc' = IF d.err THEN "raised" ELSE "gather"
           /\ exc' = IF d.err THEN "raised" ELSE exc
    /\ now' = 0
    /\ mode' = "coop"
    /\ runs' = runs + 1
    /\ last' = NoStep
    /\ UNCHANGED <<thread_count, results, poolVars, histVars, returned,
                   firstReturn, reads, executor>>
    /\ UNCHANGED <<bucketVars, callerVars>>

\* the first call of run, in cooperative mode
RunAsync == mainpc = "submit" /\ StartAsync

\* run is called again after it has returned
RunAsyncAgain == mainpc = "returned" /\ runs < MaxRuns /\ StartAsync

\* the payloads an executor thread is running
Running == {i \in UnitIds : tasks[i].work = "running"}

\* an executor that starts a thread for every work item
CanStartUnbounded(i) ==
    /\ tasks[i].work = "queued"
    /\ \A j \in 1..(i - 1) : tasks[j].work # "queued"

\* ThreadPoolExecutor(max_workers=thread_count): work items start in the
\* order they were handed over, as soon as a thread is free
CanStart(i) ==
    /\ tasks[i].work = "queued"
    /\ Cardinality(Running) < thread_count
    /\ \A j \in 1..(i - 1) : tasks[j].work # "queued"

\* an executor thread starts `lambda: task(*args, **kwargs)`
PayloadStart(i) ==
    /\ mainpc = "gather"
    /\ CanStart(i)
    /\ tasks' = [tasks EXCEPT ![i].work = "running", ![i].started = now,
                              ![i].calls = @ + 1]
    /\ last' = NoStep
    /\ UNCHANGED <<thread_count, results, mainpc, queueVars, poolVars, now,
                   histVars, runVars, scopeVars>>
    /\ UNCHANGED <<bucketVars, callerVars>>

\* execute_async with the timeout handled by its `except Exception` branch
TimeoutAsError(t) == [status |-> "error", error |-> "", id |-> t.id]

\* the mapping execute_async returns after asyncio.TimeoutError
TimeoutDict(t) ==
    [status |-> "timeout",
     error |-> <<"Task timed out after", t.timeout, "seconds">>, id |-> t.id]

\* the mapping execute_async returns after any other exception
ErrorDict(t, msg) == [status |-> "error", error |-> msg, id |-> t.id]

\* what execute_async returns when the payload returned v: v itself
Returned(t, v) == [value |-> v, id |-> t.id]

\* what execute_async makes of a payload that ended in time: its value when
\* it returned; an exception raised by the payload comes out of the await,
\* where `except asyncio.TimeoutError` is tried before `except Exception`
ExecuteAsyncResult(t, ending, v) ==
    IF ending = "TimeoutError" THEN TimeoutDict(t)
    ELSE IF ending = "Exception" THEN ErrorDict(t, 1)
    ELSE Returned(t, v)

\* the payload of unit i returns v or raises; the coroutine, unless its
\* timeout came first, returns what execute_async makes of it
PayloadEnd(i, ending, v) ==
    /\ i \in Running
    /\ tasks' = [tasks EXCEPT
           ![i].work = "finished",
           ![i].started = 0,
           ![i].outcome = IF @ = NoOutcome /\ mainpc = "gather"
                          THEN ExecuteAsyncResult(tasks[i].task, ending, v)
                          ELSE @]
    /\ LET awaited == tasks[i].outcome = NoOutcome /\ mainpc = "gather"
       IN  last' = [op |-> "payload", unit |-> i,
                    duration |-> now - tasks[i].started, awaited |-> awaited,
                    ending |-> IF awaited THEN ending ELSE "unobserved"]
    /\ UNCHANGED <<thread_count, results, mainpc, queueVars, poolVars, now,
                   histVars, runVars, scopeVars>>
    /\ UNCHANGED <<bucketVars, callerVars>>

\* wait_for's timer of unit i fires `timeout` after the coroutine started: the
\* future is cancelled (a work item not yet started never runs, a running
\* payload runs on) and execute_async returns the timeout mapping
Deadline(i) == tasks[i].task.timeout

TimerFires(i) ==
    /\ mainpc = "gather"
    /\ tasks[i].outcome = NoOutcome
    /\ now >= Deadline(i)
    /\ tasks' = [tasks EXCEPT
           ![i].outcome = TimeoutDict(tasks[i].task),
           ![i].work = IF @ = "queued" THEN "cancelled" ELSE @]
    /\ last' = NoStep
    /\ UNCHANGED <<thread_count, results, mainpc, queueVars, poolVars, now,
                   histVars, runVars, scopeVars>>
    /\ UNCHANGED <<bucketVars, callerVars>>

\* time passes; a due timer and a free executor thread act first
Tick ==
    /\ mainpc = "gather"
    /\ now < MaxTime
    /\ Running # {}
    /\ \A i \in UnitIds :
           /\ ~CanStart(i)
           /\ tasks[i].outcome = NoOutcome => now < Deadline(i)
    /\ now' = now + 1
    /\ last' = NoStep
    /\ UNCHANGED <<thread_count, results, mainpc, queueVars, poolVars, tasks,
                   histVars, runVars, scopeVars>>
    /\ UNCHANGED <<bucketVars, callerVars>>

\* `[r for r in results if r is not None]`
NotNone(outcomes) ==
    SelectSeq(outcomes, LAMBDA r : ~("value" \in DOMAIN r /\ r.value = "None"))

\* the coroutines this call of run_async handed to gather
Gathered == SelectSeq(tasks, LAMBDA u : u.run = runs)

\* a gather that lists the results from the last coroutine to the first
GatherLatestFirst(us) == [i \in 1..Len(us) |-> us[Len(us) + 1 - i].outcome]

\* `await asyncio.gather(*tasks)`: the results in the order of the coroutines
GatherResults(us) == [i \in 1..Len(us) |-> us[i].outcome]

\* gather has every coroutine's result: run_async returns the filtered list
GatherDone ==
    /\ mainpc = "gather"
    /\ \A i \in UnitIds : tasks[i].outcome # NoOutcome
    /\ Return(NotNone(GatherResults(Gathered)))
    /\ last' = NoStep
    /\ UNCHANGED <<thread_count, results, queueVars, poolVars, coopVars,
                   histVars, mode, runs, scopeVars>>
    /\ UNCHANGED <<bucketVars, callerVars>>

\* ----------------------------------------------------------- the with block

\* An exception is raised inside the with block, in the thread that submits
\* and calls run. When it interrupts asyncio.run, the loop cancels the
\* coroutines still pending, and with them the work items not yet started;
\* payloads already running and the worker threads go on.
BlockRaises ==
    /\ mainpc \in {"submit", "join", "setstop", "jointhreads", "gather",
                   "returned"}
    /\ mainpc' = "raised"
    /\ exc' = "raised"
    /\ tasks' = [i \in UnitIds |->
                    IF tasks[i].work = "queued"
                    THEN [tasks[i] EXCEPT !.work = "cancelled"]
                    ELSE tasks[i]]
    /\ last' = NoStep
    /\ UNCHANGED <<thread_count, results, queueVars, poolVars, now, histVars,
                   runVars, executor>>
    /\ UNCHANGED <<bucketVars, callerVars>>

\* what Engine.__exit__ returns: it has no return statement
ExitReturnsTrue == "True"

ExitReturns == "None"

\* The with block is left, normally or with the exception pending:
\* Engine.__exit__ calls self._executor.shutdown(wait=True), which returns
\* once no payload runs on the executor's threads. A falsy return value of
\* __exit__ lets the exception go on to the caller.
Exit ==
    /\ mainpc \in {"submit", "returned", "raised"}
    /\ Running = {}
    /\ executor' = "shutdown"
    /\ exc' = IF exc # "raised" THEN exc
              ELSE IF Truthy(ExitReturns) THEN "suppressed"
              ELSE "propagated"
    /\ mainpc' = "exited"
    /\ last' = NoStep
    /\ UNCHANGED <<thread_count, results, queueVars, poolVars, coopVars,
                   histVars, runVars>>
    /\ UNCHANGED <<bucketVars, callerVars>>

\* ----------------------------------------------------------- specification

\* Engine.__init__ with thread_count = n
EngineNew(n) ==
    /\ thread_count = n
    /\ queue = <<>>
    /\ unfinished_tasks = 0
    /\ results = <<>>
    /\ stop_event = FALSE
    /\ lock = 0
    /\ mainpc = "submit"
    /\ wpc = [w \in 1..n |-> "idle"]
    /\ cur = [w \in 1..n |-> NoTask]
    /\ tasks = <<>>
    /\ now = 0
    /\ returned = <<>>
    /\ mode = "none"
    /\ runs = 0
    /\ executor = "open"
    /\ exc = "none"
    /\ nextId = 1
    /\ submitted = {}
    /\ addRaised = {}
    /\ inflight = {}
    /\ permits = {}
    /\ firstReturn = <<>>
    /\ reads = {}

\* RateLimiter.__init__ with burst_size = b, time.monotonic() reading up;
\* last_update and clock count from the construction
LimiterNew(b, up) ==
    /\ burst_size = b
    /\ tokens = InitialTokens(b)
    /\ last_update = 0
    /\ last_warning = 0
    /\ boot = up
    /\ warnings = <<>>
    /\ clock = 0
    /\ limiter_lock = "free"
    /\ async_lock = "free"
    /\ callers = [c \in Callers |-> Idle]
    /\ begun = 0
    /\ acquires = <<>>
    /\ granted = 0
    /\ raced = FALSE

Init ==
    /\ \E n \in ThreadCounts : EngineNew(n)
    /\ LimiterNew(DefaultBurstSize, 0)
    /\ last = NoStep

\* a payload raising on more calls than the engine makes behaves like one
\* raising on every call
FailCounts(w) == IF wpc[w] = "exec" THEN 0..(cur[w].max_retries + 1) ELSE {}

Next ==
    \/ \E t \in TaskInputs : AddTask(t.priority, t.fn, t.max_retries, t.timeout)
    \/ RunPooled
    \/ \E w \in Workers : WorkerCheck(w)
    \/ \E w \in Workers : WorkerGet(w)
    \/ \E w \in Workers : WorkerLock(w)
    \/ \E w \in Workers : \E v \in ReturnValues : \E fails \in FailCounts(w) :
           \E d \in Durations : WorkerExecute(w, fails, v, d)
    \/ \E w \in Workers : WorkerFinally(w)
    \/ QueueJoin
    \/ SetStop
    \/ JoinThreads
    \/ RunAsync
    \/ \E i \in UnitIds : PayloadStart(i)
    \/ \E i \in UnitIds : \E v \in ReturnValues : \E ending \in Endings :
           PayloadEnd(i, ending, v)
    \/ \E i \in UnitIds : TimerFires(i)
    \/ Tick
    \/ GatherDone

Spec == Init /\ [][Next]_vars

\* one RateLimiter shared by the threads and the coroutine that call it
LimiterInit ==
    /\ EngineNew(1)
    /\ \E b \in BurstSizes : \E up \in Uptimes : LimiterNew(b, up)
    /\ last = NoStep

LimiterNext ==
    \/ \E c \in Callers : \E op \in OpsOf(c) : \E cost \in Costs :
           Call(c, op, cost)
    \/ \E c \in Callers : Acquire(c)
    \/ \E c \in Callers : ReadClock(c)
    \/ \E c \in Callers : RefillRead(c)
    \/ \E c \in Callers : RefillStore(c)
    \/ \E c \in Callers : WarnCheck(c)
    \/ \E c \in Callers : Wake(c)
    \/ ClockTick

SpecLimiter == LimiterInit /\ [][LimiterNext]_vars

\* the steps of worker w
WorkerStep(w) ==
    /\ w \in Workers
    /\ \/ WorkerCheck(w)
       \/ WorkerGet(w)
       \/ WorkerLock(w)
       \/ \E v \in ReturnValues : \E fails \in FailCounts(w) :
              \E d \in Durations : WorkerExecute(w, fails, v, d)
       \/ WorkerFinally(w)

\* submission and pooled run
NextPooled ==
    \/ \E t \in TaskInputs : AddTask(t.priority, t.fn, t.max_retries, t.timeout)
    \/ RunPooled
    \/ \E w \in Workers : WorkerCheck(w)
    \/ \E w \in Workers : WorkerGet(w)
    \/ \E w \in Workers : WorkerLock(w)
    \/ \E w \in Workers : \E v \in ReturnValues : \E fails \in FailCounts(w) :
           \E d \in Durations : WorkerExecute(w, fails, v, d)
    \/ \E w \in Workers : WorkerFinally(w)
    \/ QueueJoin
    \/ SetStop
    \/ JoinThreads

\* pooled run called again, with tasks submitted between the calls
NextAgain ==
    \/ NextPooled
    \/ \E t \in TaskInputs :
           AddTaskAgain(t.priority, t.fn, t.max_retries, t.timeout)
    \/ RunPooledAgain

\* Fair scheduling and payloads that end: every worker thread that can take
\* a step takes one, and so does the thread inside run. Nothing obliges the
\* caller to submit or to call run.
FairThreads ==
    /\ \A w \in UNION {1..n : n \in ThreadCounts} : WF_vars(WorkerStep(w))
    /\ WF_vars(QueueJoin \/ SetStop \/ JoinThreads)

SpecAgain == Init /\ [][NextAgain]_vars /\ FairThreads

\* pooled run with tasks submitted while it is on
NextDuring ==
    \/ NextPooled
    \/ \E t \in TaskInputs :
           AddTaskDuring(t.priority, t.fn, t.max_retries, t.timeout)

SpecDuring == Init /\ [][NextDuring]_vars

\* the engine with run called up to MaxRuns times
NextRuns ==
    \/ Next
    \/ RunPooledAgain
    \/ RunAsyncAgain

SpecRuns == Init /\ [][NextRuns]_vars

\* the engine used in a with block that can raise
NextScope ==
    \/ Next
    \/ BlockRaises
    \/ Exit

SpecScope == Init /\ [][NextScope]_vars

\* ------------------------------------------------------------------- claims

\* the latest call of run was in pooled mode / in cooperative mode, and has
\* returned
PooledReturned == mainpc = "returned" /\ mode = "pooled"
CoopReturned == mainpc = "returned" /\ mode = "coop"

\* the positions of a list of records that belong to the task `id`
EntriesOf(list, id) == {k \in DOMAIN list : list[k].id = id}

\* a comes before b in (priority, submission sequence) order
KeyBefore(a, b) ==
    \/ a.priority < b.priority
    \/ a.priority = b.priority /\ a.id < b.id

\* C1: when pooled run returns, the returned list holds exactly one Result
\* Record for every task that was submitted, whatever the payloads did.
C1_PooledOneRecordPerTask ==
    (PooledReturned /\ runs = 1) =>
        \A id \in submitted : Cardinality(EntriesOf(returned, id)) = 1

\* C2: when cooperative run returns, the returned list holds exactly one
\* outcome for every task that was submitted, also for payloads returning None.
C2_CoopOneOutcomePerTask ==
    (CoopReturned /\ runs = 1) =>
        \A id \in submitted : Cardinality(EntriesOf(returned, id)) = 1

\* C3: tasks leave the queue in ascending (priority, submission sequence)
\* order: a tuple a worker holds comes before every tuple still queued, and
\* the coroutines of run_async are created in that order.
C3_DequeueOrder ==
    addRaised = {} =>
        /\ \A w \in Workers : cur[w] # NoTask =>
               \A k \in DOMAIN queue : KeyBefore(cur[w], queue[k])
        /\ \A i, j \in UnitIds : (i < j /\ tasks[i].run = tasks[j].run) =>
               KeyBefore(tasks[i].task, tasks[j].task)

\* C4: add_task never raises and every call enqueues exactly one tuple, also
\* for two tasks of equal priority with different payloads.
C4_AddTaskSucceeds ==
    /\ addRaised = {}
    /\ mainpc = "submit" =>
           Len(queue) = nextId - 1 /\ unfinished_tasks = nextId - 1

\* C5: a payload that raises on its first k calls, k <= max_retries, and then
\* returns, gets exactly one Result Record, with status success.
C5_RetryThenSuccess ==
    (last.op = "execute" /\ last.outcome \in ReturnValues
                         /\ last.fails <= last.task.max_retries) =>
        /\ Len(last.appended) = 1
        /\ last.appended[1].status = "success"
        /\ last.calls = last.fails + 1

\* C6: a payload that raises on every call is called exactly max_retries + 1
\* times and gets exactly one Result Record, with status error and the message
\* of the last call's failure.
C6_AlwaysFailing ==
    (last.op = "execute" /\ last.outcome = "raised") =>
        /\ last.calls = last.task.max_retries + 1
        /\ Len(last.appended) = 1
        /\ last.appended[1].status = "error"
        /\ last.appended[1].error = last.calls
        /\ last.appended[1].id = last.task.id

C6_Witness ==
    /\ last.op = "execute"
    /\ last.outcome = "raised"
    /\ last.task.max_retries = 2
    /\ last.calls = 3
    /\ Len(results) = 2

\* C7: in pooled mode a task whose payload runs longer than its timeout gets
\* exactly one Result Record, with status timeout, and is called once.
C7_PooledTimeout ==
    (last.op = "execute" /\ last.duration > last.task.timeout) =>
        /\ Len(last.appended) = 1
        /\ last.appended[1].status = "timeout"
        /\ last.calls = 1

\* the payload of unit i has been running, or ran, for longer than its timeout
Exceeded(i) ==
    \/ /\ tasks[i].work = "running"
       /\ now - tasks[i].started > tasks[i].task.timeout
    \/ last.op = "payload" /\ last.unit = i
                           /\ last.duration > tasks[i].task.timeout

\* C8: in cooperative mode a payload that runs longer than its timeout yields
\* the timeout mapping, whose message names the duration, the returned list
\* holds that outcome exactly once, and the payload was started once.
C8_CoopTimeout ==
    \A i \in UnitIds : Exceeded(i) =>
        /\ tasks[i].outcome.status = "timeout"
        /\ tasks[i].outcome.error =
               <<"Task timed out after", tasks[i].task.timeout, "seconds">>
        /\ tasks[i].calls = 1
        /\ (CoopReturned /\ tasks[i].run = runs) =>
               /\ Cardinality(EntriesOf(returned, tasks[i].task.id)) = 1
               /\ \A k \in EntriesOf(returned, tasks[i].task.id) :
                      returned[k] = tasks[i].outcome

C8_Witness ==
    /\ CoopReturned
    /\ \E i \in UnitIds :
           /\ tasks[i].run = runs
           /\ tasks[i].work = "running"
           /\ now - tasks[i].started > tasks[i].task.timeout
           /\ tasks[i].task.max_retries > 0

\* C9: a payload that returns a falsy value is recorded as one success
\* record: in pooled mode _execute_task appends it, in cooperative mode the
\* returned list keeps the outcome of every payload that returned.
C9_FalsyIsSuccess ==
    /\ (last.op = "execute" /\ last.outcome \in ReturnValues
                            /\ ~Truthy(last.outcome)) =>
           /\ Len(last.appended) = 1
           /\ last.appended[1].status = "success"
    /\ CoopReturned =>
           \A i \in UnitIds :
               (tasks[i].run = runs /\ "value" \in DOMAIN tasks[i].outcome) =>
                   EntriesOf(returned, tasks[i].task.id) # {}

\* C10: once queue.join has released run, no worker holds a dequeued task
\* that is still waiting for the lock or executing.
C10_BarrierWaitsForTasks ==
    mainpc \in {"setstop", "jointhreads", "returned"} =>
        \A w \in Workers : wpc[w] \notin {"lock", "exec"}

\* C11: the exception of a payload never leaves the engine and becomes an
\* error outcome: in pooled mode _execute_task appends one error record for a
\* payload that raised on every call, in cooperative mode the coroutine whose
\* payload raised while gather awaited it resolves to a {status: error}
\* mapping.
C11_FailureBecomesError ==
    /\ (last.op = "execute" /\ last.outcome = "raised") =>
           /\ Len(last.appended) = 1
           /\ last.appended[1].status = "error"
    /\ (last.op = "payload" /\ last.ending \in {"Exception", "TimeoutError"}) =>
           tasks[last.unit].outcome.status = "error"

\* C12: after every operation of the limiter, whatever its cost and however
\* the callers interleave, the token count is between 0 and burst_size: wait
\* and async_wait debit only when at least cost tokens are there.
C12_TokensInRange ==
    last.op \in {"wait", "async_wait", "check_rate_limit"} =>
        /\ 0 <= tokens
        /\ tokens <= burst_size

\* C13: from a full bucket, the tokens that wait and async_wait have granted
\* up to any time t are at most burst_size + rate * t.
C13_NoFasterThanRefill ==
    granted <= burst_size + rate * clock

\* C14: from a full bucket, the first burst_size acquires of cost 1, made one
\* after the other, do not sleep, whatever time passes between them.
C14_BurstAllowance ==
    \A c \in Callers :
        (/\ ~raced
         /\ Len(acquires) <= burst_size
         /\ \A k \in DOMAIN acquires : acquires[k] = 1
         /\ callers[c] # Idle) =>
            ~callers[c].slept

\* the last of burst_size acquires of cost 1 has returned without sleeping,
\* for a burst_size of 2 and with time passing before it
C14_Witness ==
    /\ ~raced
    /\ burst_size = 2
    /\ acquires = <<1, 1>>
    /\ last.op \in {"wait", "async_wait"}
    /\ ~last.slept
    /\ last_update > 0
    /\ tokens = 0
    /\ \A c \in Callers : callers[c] = Idle

\* C15: the lists of repeated run calls with no task submitted in between
\* follow one contract: every later list holds the same records as the first
\* (non-destructive), or every later list is empty (consume-once), whatever
\* the mode of the calls.
C15_OneDrainContract ==
    \/ reads \subseteq {"same"}
    \/ reads \subseteq {"empty"}

\* a mapping with a status, a result iff the status is success, and an error
\* iff the status is error or timeout
WellFormed(r) ==
    /\ "status" \in DOMAIN r
    /\ r.status \in {"success", "error", "timeout"}
    /\ "result" \in DOMAIN r <=> r.status = "success"
    /\ "error" \in DOMAIN r <=> r.status \in {"error", "timeout"}

\* C16: whatever the payload did, execute_async returns a mapping with a
\* status among success, error and timeout, with the result when the payload
\* returned and the error when it raised or timed out.
C16_ExecuteAsyncMapping ==
    \A i \in UnitIds : tasks[i].outcome # NoOutcome =>
        /\ WellFormed(tasks[i].outcome)
        /\ (last.op = "payload" /\ last.unit = i /\ last.ending = "returns") =>
               tasks[i].outcome.status = "success"

\* C17: every record of the list run returned, in either mode, is well
\* formed.
C17_ReturnedWellFormed ==
    mainpc = "returned" => \A k \in DOMAIN returned : WellFormed(returned[k])

\* C18: every record carries the priority of its task: the records that
\* _execute_task appends, and the outcomes in the list of a cooperative run.
C18_RecordHasPriority ==
    /\ last.op = "execute" =>
           \A k \in DOMAIN last.appended :
               /\ "priority" \in DOMAIN last.appended[k]
               /\ last.appended[k].priority = last.task.priority
    /\ CoopReturned =>
           \A i \in UnitIds : \A k \in EntriesOf(returned, tasks[i].task.id) :
               /\ "priority" \in DOMAIN returned[k]
               /\ returned[k].priority = tasks[i].task.priority

\* C19: when pooled run returns, every worker thread has ended, and every
\* task a worker held when the stop signal was set has its record in the
\* returned list.
C19_ShutdownKeepsInflight ==
    PooledReturned =>
        /\ \A w \in Workers : wpc[w] \in {"exit", "dead"}
        /\ \A id \in inflight : EntriesOf(returned, id) # {}

\* C20: once the with block is left, on any path, the executor is shut down,
\* and an exception raised inside the block has gone on to the caller; until
\* then it is pending in the thread that left run.
C20_ExitShutsDown ==
    /\ mainpc = "exited" =>
           /\ executor = "shutdown"
           /\ exc \in {"none", "propagated"}
    /\ exc = "raised" => mainpc = "raised"
    /\ exc = "none" => mainpc # "raised"

\* the block was left by an exception that interrupted pooled run while it
\* waited in queue.join, with a worker thread still at work
C20_Witness ==
    /\ mainpc = "exited"
    /\ executor = "shutdown"
    /\ exc = "propagated"
    /\ mode = "pooled"
    /\ ~stop_event
    /\ \E w \in Workers : wpc[w] = "exec"

\* a thread that has called op waits for the limiter's lock while the thread
\* holding it is asleep in wait
BlockedBehindSleeper(c, op) ==
    /\ callers[c] # Idle
    /\ callers[c].op = op
    /\ callers[c].pc = "lock"
    /\ \E d \in Threads : limiter_lock = d /\ callers[d].pc = "sleep"

\* C21: check_rate_limit never blocks or sleeps, and raises exactly when
\* fewer tokens than requested are there after the refill; wait and
\* async_wait never raise.
C21_CheckNeverBlocks ==
    /\ \A c \in Threads : ~BlockedBehindSleeper(c, "check_rate_limit")
    /\ last.op = "check_rate_limit" =>
           /\ ~last.slept
           /\ last.raised <=> tokens < last.cost
    /\ last.op \in {"wait", "async_wait"} => ~last.raised

\* the ids of the tuples in a heap list, of the tuples the workers hold, and
\* of the tuples the coroutines of run_async were created for
IdsIn(h) == {h[k].id : k \in DOMAIN h}
HeldIds(c) == {c[w].id : w \in {x \in DOMAIN c : c[x] # NoTask}}
UnitTaskIds(us) == {us[k].task.id : k \in DOMAIN us}

\* a step of a run keeps to the life of a Task Record
LifecycleStep ==
    \* a tuple a worker takes comes out of the queue, where it is not again
    /\ \A id \in HeldIds(cur') \ HeldIds(cur) :
           id \in IdsIn(queue) /\ id \notin IdsIn(queue')
    \* a tuple that leaves the queue goes to a worker or to a coroutine
    /\ \A id \in IdsIn(queue) \ IdsIn(queue') :
           id \in HeldIds(cur') \cup UnitTaskIds(tasks')
    \* nothing is put back: without a submission the queue does not grow
    /\ mainpc # "submit" =>
           /\ IdsIn(queue') \subseteq IdsIn(queue)
           /\ Len(queue') <= Len(queue)
    \* the execution of a tuple, retries included, ends with one record
    /\ last'.op = "execute" =>
           /\ Len(last'.appended) = 1
           /\ last'.appended[1].id = last'.task.id

\* C22: every Task Record is dequeued once, goes from the queue to a worker
\* that executes it, and ends with exactly one Result Record; retries happen
\* inside the worker and put nothing back into the queue, whose length never
\* grows during a run.
C22_TaskLifecycle == [][LifecycleStep]_vars

\* C23: in both modes no payload starts before a limiter acquire was made
\* for its task: a worker that executes a tuple, and a coroutine whose
\* payload was started, have obtained a permit.
C23_PermitBeforePayload ==
    /\ \A w \in Workers : wpc[w] = "exec" => cur[w].id \in permits
    /\ last.op = "execute" => last.task.id \in permits
    /\ \A i \in UnitIds : tasks[i].calls > 0 => tasks[i].task.id \in permits

\* C24: cooperative mode retries as pooled mode does: when the payload of a
\* coroutine raises and execute_async answers with an outcome, the payload
\* has been called max_retries + 1 times, as _execute_task calls a payload
\* that raises every time.
C24_CoopRetries ==
    /\ (last.op = "payload" /\ last.ending = "Exception") =>
           tasks[last.unit].calls = tasks[last.unit].task.max_retries + 1
    /\ (last.op = "execute" /\ last.outcome = "raised") =>
           last.calls = last.task.max_retries + 1

\* worker w has left Engine.worker
Ended(pcs, w) == pcs[w] \in {"exit", "dead"}

\* C25: a pooled worker ends only when the stop signal is set and the queue
\* is empty: never while tuples are queued, and never on an empty queue
\* before the stop signal.
C25_WorkerEndsOnStop ==
    [][\A w \in Workers :
           (Ended(wpc', w) /\ ~Ended(wpc, w)) =>
               stop_event' /\ queue' = <<>>]_vars

\* C26: in pooled mode at most one worker at a time is in the section that
\* waits on the limiter, executes the payload with its retries and appends
\* to results; that worker holds the engine's lock.
C26_OneWorkerInSection ==
    \A w \in Workers : wpc[w] = "exec" =>
        /\ lock = w
        /\ \A x \in Workers : wpc[x] = "exec" => x = w

\* one worker is in the section while another, holding its tuple, waits for
\* the lock
C26_Witness ==
    \E w, x \in Workers :
        /\ wpc[w] = "exec"
        /\ lock = w
        /\ wpc[x] = "lock"
        /\ cur[x] # NoTask

\* C27: the refill and debit of tokens and last_update are mutually exclusive
\* across wait, async_wait and check_rate_limit on one limiter: a thread and
\* a coroutine are never inside their with blocks at once, and the count a
\* caller is about to store is the refill of the count that is there, so no
\* update is lost.
C27_OneCallerInside ==
    /\ limiter_lock = "free" \/ async_lock = "free"
    /\ \A c \in Callers : callers[c].pc = "store" =>
           callers[c].computed
               = Refill(tokens, callers[c].now - last_update, burst_size)

\* C28: in pooled mode one token is debited for every dequeued task, inside
\* the section and before the first call of the payload; it is not given
\* back whatever the outcome, and the retries debit nothing.
C28_OneTokenPerTask ==
    /\ granted = Cardinality(permits)
    /\ tokens = burst_size - Cardinality(permits)
    /\ \A w \in Workers :
           /\ wpc[w] = "lock" => cur[w].id \notin permits
           /\ wpc[w] = "exec" => cur[w].id \in permits
    /\ last.op = "execute" => last.task.id \in permits

\* the second task of a run has used up its retries and got an error record:
\* two tokens are gone
C28_Witness ==
    /\ last.op = "execute"
    /\ last.outcome = "raised"
    /\ last.calls = 3
    /\ Cardinality(permits) = 2
    /\ tokens = burst_size - 2

\* C29: the limiter logs a warning only when the computed wait is longer than
\* a second and more than 5 seconds lie between the clock reading of the
\* caller and that of the previous warning; so any two warnings of one
\* limiter are more than 5 seconds apart by the limiter's clock readings,
\* however many callers wait.
C29_WarningsApart ==
    /\ (last.op = "warn_test" /\ last.warned) =>
           /\ last.wait_time > WarnWait
           /\ last.since > WarnInterval
    /\ \A i, j \in DOMAIN warnings :
           i < j => warnings[j] - warnings[i] > WarnInterval

\* after one warning a second caller has to wait for longer than a second,
\* within 5 seconds of the warning, and logs none
C29_Witness ==
    /\ last.op = "warn_test"
    /\ ~last.warned
    /\ last.wait_time > WarnWait
    /\ Len(warnings) = 1
    /\ last.since <= WarnInterval

\* C30: when execute_async has answered with the timeout mapping, the
\* payload is cancelled: it no longer runs and holds no thread of the
\* executor.
C30_TimeoutCancelsPayload ==
    \A i \in UnitIds :
        (tasks[i].outcome # NoOutcome /\ "status" \in DOMAIN tasks[i].outcome
                                      /\ tasks[i].outcome.status = "timeout") =>
            tasks[i].work # "running"

\* the coroutine of unit i has answered with the timeout mapping
TimedOut(i) ==
    /\ tasks[i].outcome # NoOutcome
    /\ "status" \in DOMAIN tasks[i].outcome
    /\ tasks[i].outcome.status = "timeout"

\* C31: the timeout of a cooperative task measures its own execution only: a
\* payload that ran for less than its timeout, and did not itself raise a
\* timeout, is not reported as timeout for having waited for an executor
\* thread, and a task reported as timeout has been started.
C31_TimeoutMeasuresExecution ==
    /\ (/\ last.op = "payload"
        /\ last.ending # "TimeoutError"
        /\ last.duration < tasks[last.unit].task.timeout) =>
           ~TimedOut(last.unit)
    /\ \A i \in UnitIds : TimedOut(i) => tasks[i].calls > 0

\* C32: in cooperative mode at most thread_count payloads run at the same
\* time, however many tasks were launched together.
C32_CoopConcurrencyBound ==
    Cardinality(Running) <= thread_count

\* every executor thread runs a payload while a work item launched with
\* them waits for a thread
C32_Witness ==
    /\ mainpc = "gather"
    /\ Cardinality(Running) = thread_count
    /\ \E i \in UnitIds : tasks[i].work = "queued" /\ tasks[i].outcome = NoOutcome

\* run is inside its pooled branch
InPooledRun == mainpc \in {"join", "setstop", "jointhreads"}

\* C33: every call of pooled run returns, also a second call made after new
\* tasks were submitted following a first call that returned, under fair
\* scheduling and with payloads that end.
C33_PooledRunReturns == InPooledRun ~> (mainpc = "returned")

\* C34: the join barrier gets one task_done for every tuple dequeued and
\* none besides: no worker ends with ValueError('task_done() called too many
\* times'), and, every put having been counted, the tuples queued or held by
\* workers are never more than the unfinished tasks.
C34_OneSignalPerDequeue ==
    /\ \A w \in Workers : wpc[w] # "dead"
    /\ addRaised = {} =>
           unfinished_tasks >= Len(queue) + Cardinality(HeldIds(cur))

\* C35: when pooled run returns the queue is empty, and every task submitted
\* before or during the run has been taken into the section and executed.
C35_NothingLeftBehind ==
    PooledReturned =>
        /\ queue = <<>>
        /\ submitted \subseteq permits

\* C36: check_rate_limit never debits. Whether it returns or raises, it
\* grants nothing and the count it leaves is never below the count it found.
C36_CheckNeverDebits ==
    [][last'.op = "check_rate_limit" =>
           /\ granted' = granted
           /\ tokens' >= tokens]_vars

\* C37: cooperative run takes every tuple from the queue before it awaits,
\* and the outcomes it returns are in the order in which their tasks were
\* taken from the queue, which is by ascending priority, whatever the order
\* in which the payloads end.
C37_CoopDequeueOrder ==
    /\ mainpc = "gather" => queue = <<>>
    /\ CoopReturned =>
           /\ queue = <<>>
           /\ \A a, b \in DOMAIN returned :
                  a < b =>
                      \E i, j \in DOMAIN Gathered :
                          /\ i < j
                          /\ Gathered[i].task.id = returned[a].id
                          /\ Gathered[j].task.id = returned[b].id
                          /\ Gathered[i].task.priority
                                 <= Gathered[j].task.priority

\* the task of priority 0 was submitted after the task of priority 1; its
\* payload is still running when run returns, the payload of the other task
\* has returned, and the outcome of the task of priority 0 comes first
C37_Witness ==
    /\ CoopReturned
    /\ Len(Gathered) = 2
    /\ Len(returned) = 2
    /\ Gathered[1].task.id = 2
    /\ Gathered[1].task.priority < Gathered[2].task.priority
    /\ Gathered[1].work = "running"
    /\ Gathered[2].work = "finished"
    /\ returned[1].id = 2
    /\ "value" \in DOMAIN returned[2]

====
